---------------------------- MODULE Spec2Model ----------------------------
(***************************************************************************)
(* Model of mullvad-types/src/settings/mod.rs: the versioned Settings      *)
(* aggregate, its change-reporting mutators (update_relay_settings,        *)
(* set_bridge_state), its getters, and the SettingsVersion codec.          *)
(*                                                                         *)
(* Five specifications share the variables:                                *)
(*   Spec       every method of impl Settings as one atomic call;          *)
(*   SpecSteps  update_relay_settings statement by statement;              *)
(*   SpecCodec  Serialize / Deserialize of SettingsVersion and             *)
(*              Settings::default();                                       *)
(*   SpecDecode Deserialize of the whole aggregate, on every document;     *)
(*   SpecLife   an aggregate constructed or decoded, then used through     *)
(*              its methods.                                               *)
(* The cfg(windows) field split_tunnel is plain storage no method of the   *)
(* file reads or writes; it is left out.                                   *)
(***************************************************************************)
EXTENDS Integers, Sequences, FiniteSets, TLC

VARIABLES
    \* ---- the fields of struct Settings (mod.rs:67-94)
    relay_settings,
    bridge_settings,
    obfuscation_settings,
    bridge_state,
    allow_lan,
    block_when_disconnected,
    auto_connect,
    tunnel_options,
    show_beta_releases,
    settings_version,
    \* ---- the caller's view of the last call
    op,          \* name of the last method called ("default" after construction)
    arg,         \* its argument (None when it takes none)
    ret,         \* its return value (None while a call is in progress)
    pre,         \* the aggregate as it was when the call was made
    prev,        \* the call made before it: its method and argument
    \* ---- history of relay_settings changes (for invariant I1)
    last_change,     \* "none" | "supports" | "not_supports"
    on_after_change, \* set_bridge_state switched the bridge On after that change
    \* ---- update_relay_settings, statement by statement (SpecSteps)
    pc,
    update_supports_bridge,
    new_settings,
    observed,    \* what a reader of the two private fields saw last
    \* ---- the SettingsVersion codec (SpecCodec)
    wire,        \* the u32 standing in the document for settings_version
    de,          \* the last Deserialize of a SettingsVersion
    ser          \* the last Serialize of a SettingsVersion

fields == <<relay_settings, bridge_settings, obfuscation_settings, bridge_state,
            allow_lan, block_when_disconnected, auto_connect, tunnel_options,
            show_beta_releases, settings_version>>
call == <<op, arg, ret, pre, prev>>
history == <<last_change, on_after_change>>
locals == <<pc, update_supports_bridge, new_settings, observed>>
codec == <<wire, de, ser>>
vars == <<fields, call, history, locals, codec>>

None == "None"

(***************************************************************************)
(* Bounds of the model.                                                    *)
(***************************************************************************)
\* Deserialize is tried on every u32 in 0..MaxRaw and on ExtraRaw (some larger
\* u32 values, up to the largest integer the model checker represents).
MaxRaw == 9

ExtraRaw == {99, 255, 65536, 2147483647}
RawValues == 0..MaxRaw \cup ExtraRaw

(***************************************************************************)
(* SettingsVersion (mod.rs:24-32) and CURRENT_SETTINGS_VERSION.            *)
(***************************************************************************)
SettingsVersion == {"V2", "V3", "V4", "V5", "V6"}

\* `as u32` on the #[repr(u32)] enum: the discriminants of lines 27-31.
AsU32(v) ==
    CASE v = "V2" -> 2
      [] v = "V3" -> 3
      [] v = "V4" -> 4
      [] v = "V5" -> 5
      [] v = "V6" -> 6

CurrentIsV5 == "V5"

CURRENT_SETTINGS_VERSION == "V6"

BridgeState == {"Auto", "On", "Off"}

(***************************************************************************)
(* The relay-settings value type, its merge and supports_bridge live in    *)
(* relay_constraints, outside this file.  They are modelled as the pure,   *)
(* total operations the file relies on: a RelaySettings is either a custom *)
(* tunnel endpoint or normal constraints (a location and a tunnel          *)
(* protocol); an update either replaces it by a custom endpoint or         *)
(* overrides the constraints it names.                                     *)
(***************************************************************************)
TransportProtocol == {"Tcp", "Udp"}
Locations == {"Any", "se", "de"}
TunnelTypes == {"Any", "Wireguard", "OpenVpn"}

Custom(p) == [kind |-> "CustomTunnelEndpoint", protocol |-> p,
              location |-> None, tunnel_protocol |-> None]
Normal(l, t) == [kind |-> "Normal", protocol |-> None,
                 location |-> l, tunnel_protocol |-> t]

RelaySettings ==
    {Custom(p) : p \in TransportProtocol}
    \cup {Normal(l, t) : l \in Locations, t \in TunnelTypes}

\* In an update a constraint is either left alone (None) or given.
RelaySettingsUpdate ==
    {Custom(p) : p \in TransportProtocol}
    \cup {Normal(l, t) : l \in Locations \cup {None}, t \in TunnelTypes \cup {None}}

DefaultConstraints == Normal("Any", "Any")

Override(old, new) == IF new = None THEN old ELSE new

merge(self, update) ==
    IF update.kind = "CustomTunnelEndpoint"
    THEN update
    ELSE LET base == IF self.kind = "Normal" THEN self ELSE DefaultConstraints
         IN  Normal(Override(base.location, update.location),
                    Override(base.tunnel_protocol, update.tunnel_protocol))

supports_bridge(update) ==
    IF update.kind = "CustomTunnelEndpoint"
    THEN update.protocol = "Tcp"
    ELSE update.tunnel_protocol # "Wireguard"

(***************************************************************************)
(* impl Default for Settings (mod.rs:105-128).                             *)
(***************************************************************************)
DefaultSettings ==
    [relay_settings          |-> Normal("se", "Any"),
     bridge_settings         |-> "BridgeSettings::Normal(default)",
     obfuscation_settings    |-> "SelectedObfuscation::Off",
     bridge_state            |-> "Auto",
     allow_lan               |-> FALSE,
     block_when_disconnected |-> FALSE,
     auto_connect            |-> FALSE,
     tunnel_options          |-> "TunnelOptions::default()",
     show_beta_releases      |-> FALSE,
     settings_version        |-> CURRENT_SETTINGS_VERSION]

\* The aggregate as one value.
Self ==
    [relay_settings          |-> relay_settings,
     bridge_settings         |-> bridge_settings,
     obfuscation_settings    |-> obfuscation_settings,
     bridge_state            |-> bridge_state,
     allow_lan               |-> allow_lan,
     block_when_disconnected |-> block_when_disconnected,
     auto_connect            |-> auto_connect,
     tunnel_options          |-> tunnel_options,
     show_beta_releases      |-> show_beta_releases,
     settings_version        |-> settings_version]

\* The aggregate becomes the value s.
Install(s) ==
    /\ relay_settings' = s.relay_settings
    /\ bridge_settings' = s.bridge_settings
    /\ obfuscation_settings' = s.obfuscation_settings
    /\ bridge_state' = s.bridge_state
    /\ allow_lan' = s.allow_lan
    /\ block_when_disconnected' = s.block_when_disconnected
    /\ auto_connect' = s.auto_connect
    /\ tunnel_options' = s.tunnel_options
    /\ show_beta_releases' = s.show_beta_releases
    /\ settings_version' = s.settings_version

NoObservation == [relay_settings |-> None, bridge_state |-> None, pc |-> None]
NoCall == [op |-> None, arg |-> None]
NoWire == [raw |-> None, from |-> None]
NoDe == [input |-> NoWire, out |-> None]
NoSer == [input |-> None, out |-> None]

Init ==
    /\ relay_settings = DefaultSettings.relay_settings
    /\ bridge_settings = DefaultSettings.bridge_settings
    /\ obfuscation_settings = DefaultSettings.obfuscation_settings
    /\ bridge_state = DefaultSettings.bridge_state
    /\ allow_lan = DefaultSettings.allow_lan
    /\ block_when_disconnected = DefaultSettings.block_when_disconnected
    /\ auto_connect = DefaultSettings.auto_connect
    /\ tunnel_options = DefaultSettings.tunnel_options
    /\ show_beta_releases = DefaultSettings.show_beta_releases
    /\ settings_version = DefaultSettings.settings_version
    /\ op = "default" /\ arg = None /\ ret = None
    /\ pre = None /\ prev = NoCall
    /\ last_change = "none" /\ on_after_change = FALSE
    /\ pc = "idle" /\ update_supports_bridge = None /\ new_settings = None
    /\ observed = NoObservation
    /\ wire = NoWire /\ de = NoDe /\ ser = NoSer

\* A call of method m with argument a is made on the aggregate as it stands.
Called(m, a) ==
    /\ op' = m
    /\ arg' = a
    /\ pre' = Self
    /\ prev' = [op |-> op, arg |-> arg]

(***************************************************************************)
(* update_relay_settings (mod.rs:135-153).                                 *)
(***************************************************************************)
\* line 138: the merged value is compared with the current one.
UrsAlwaysChanged(current, merged) == TRUE

UrsChanged(current, merged) == current # merged

\* lines 139-141: the bridge state goes with the new relay settings.
UrsBridgeKept(bs, usb) == bs

UrsBridgeResetAlways(bs, usb) == IF "On" = bs THEN "Auto" ELSE bs

UrsBridgeOff(bs, usb) == IF ~usb /\ "On" = bs THEN "Off" ELSE bs

\* A slip: a bridge-supporting update switches an Auto bridge back On.
UrsBridgeRestored(bs, usb) ==
    IF ~usb /\ "On" = bs THEN "Auto"
    ELSE IF usb /\ "Auto" = bs THEN "On" ELSE bs

UrsBridgeState(bs, usb) == IF ~usb /\ "On" = bs THEN "Auto" ELSE bs

\* lines 149 and 151: the value returned on each branch.
UrsReturnsTrue(changed) == TRUE

UrsReturn(changed) == IF changed THEN TRUE ELSE FALSE

\* line 148: the relay settings committed on the changing branch.
UrsCommitted(current, merged) == merged

\* What a change of relay_settings does to the history of changes.
NoteChange(changed, usb) ==
    IF changed
    THEN /\ last_change' = (IF usb THEN "supports" ELSE "not_supports")
         /\ on_after_change' = FALSE
    ELSE UNCHANGED history

\* A slip: the bridge configuration is reset together with the bridge state.
update_relay_settings_resets_bridge_settings(update) ==
    LET usb == supports_bridge(update)
        merged == merge(relay_settings, update)
        changed == UrsChanged(relay_settings, merged)
    IN  /\ pc = "idle"
        /\ Called("update_relay_settings", update)
        /\ IF changed
           THEN /\ bridge_state' = UrsBridgeState(bridge_state, usb)
                /\ relay_settings' = UrsCommitted(relay_settings, merged)
           ELSE UNCHANGED <<bridge_state, relay_settings>>
        /\ bridge_settings' = IF changed /\ ~usb
                              THEN DefaultSettings.bridge_settings
                              ELSE bridge_settings
        /\ ret' = UrsReturn(changed)
        /\ NoteChange(changed, usb)
        /\ UNCHANGED <<obfuscation_settings, allow_lan,
                       block_when_disconnected, auto_connect, tunnel_options,
                       show_beta_releases, settings_version>>
        /\ UNCHANGED <<locals, codec>>

update_relay_settings(update) ==
    LET usb == supports_bridge(update)
        merged == merge(relay_settings, update)
        changed == UrsChanged(relay_settings, merged)
    IN  /\ pc = "idle"
        /\ Called("update_relay_settings", update)
        /\ IF changed
           THEN /\ bridge_state' = UrsBridgeState(bridge_state, usb)
                /\ relay_settings' = UrsCommitted(relay_settings, merged)
           ELSE UNCHANGED <<bridge_state, relay_settings>>
        /\ ret' = UrsReturn(changed)
        /\ NoteChange(changed, usb)
        /\ UNCHANGED <<bridge_settings, obfuscation_settings, allow_lan,
                       block_when_disconnected, auto_connect, tunnel_options,
                       show_beta_releases, settings_version>>
        /\ UNCHANGED <<locals, codec>>

(***************************************************************************)
(* set_bridge_state (mod.rs:159-166).                                      *)
(***************************************************************************)
SbsAlwaysChanged(current, new) == TRUE

\* A slip: On is refused while the last relay change does not support it.
SbsChangedIfCompatible(current, new) ==
    current # new /\ ~(new = "On" /\ last_change = "not_supports")

SbsChanged(current, new) == current # new

SbsStored(current, new) == new

set_bridge_state(new) ==
    LET changed == SbsChanged(bridge_state, new)
    IN  /\ pc = "idle"
        /\ Called("set_bridge_state", new)
        /\ IF changed
           THEN bridge_state' = SbsStored(bridge_state, new)
           ELSE UNCHANGED bridge_state
        /\ ret' = changed
        /\ IF changed /\ bridge_state' = "On"
           THEN on_after_change' = TRUE
           ELSE UNCHANGED on_after_change
        /\ UNCHANGED last_change
        /\ UNCHANGED <<relay_settings, bridge_settings, obfuscation_settings,
                       allow_lan, block_when_disconnected, auto_connect,
                       tunnel_options, show_beta_releases, settings_version>>
        /\ UNCHANGED <<locals, codec>>

(***************************************************************************)
(* The getters (mod.rs:131-133, 155-157, 168-170).                         *)
(***************************************************************************)
get_relay_settings ==
    /\ pc = "idle"
    /\ Called("get_relay_settings", None)
    /\ ret' = relay_settings
    /\ UNCHANGED <<fields, history, locals, codec>>

get_bridge_state ==
    /\ pc = "idle"
    /\ Called("get_bridge_state", None)
    /\ ret' = bridge_state
    /\ UNCHANGED <<fields, history, locals, codec>>

\* A slip: the getter answers with the constant instead of the field.
get_settings_version_current ==
    /\ pc = "idle"
    /\ Called("get_settings_version", None)
    /\ ret' = CURRENT_SETTINGS_VERSION
    /\ UNCHANGED <<fields, history, locals, codec>>

get_settings_version ==
    /\ pc = "idle"
    /\ Called("get_settings_version", None)
    /\ ret' = settings_version
    /\ UNCHANGED <<fields, history, locals, codec>>

Next ==
    \/ \E update \in RelaySettingsUpdate : update_relay_settings(update)
    \/ \E new \in BridgeState : set_bridge_state(new)
    \/ get_relay_settings
    \/ get_bridge_state
    \/ get_settings_version

Spec == Init /\ [][Next]_vars

(***************************************************************************)
(* Properties of the atomic calls (checked under Spec).                    *)
(***************************************************************************)
IsUrs == op = "update_relay_settings"
IsSbs == op = "set_bridge_state"
\* The merge the last update_relay_settings call computed.
Merged == merge(pre.relay_settings, arg)

\* C1 as stated: in every reachable state, bridge_state = On implies that the
\* most recent update_relay_settings call that changed relay_settings supported
\* bridging, or that no call has changed relay_settings yet.
C1_I1Always ==
    bridge_state = "On" => last_change \in {"none", "supports"}

\* C1 as amended: bridge_state = On implies that the most recent changing
\* update supported bridging, or that none changed relay_settings yet, or that
\* set_bridge_state switched the bridge On after that most recent change.
C1_I1UnlessSetOn ==
    bridge_state = "On" =>
        \/ last_change \in {"none", "supports"}
        \/ on_after_change

\* C1: the bridge was On, a changing update that does not support bridging
\* reset it, and it is On again over those relay settings.
C1_Witness ==
    /\ IsSbs /\ arg = "On" /\ ret = TRUE
    /\ bridge_state = "On"
    /\ last_change = "not_supports"
    /\ on_after_change

\* C2: an update whose merge equals the current relay_settings returns false
\* and leaves relay_settings and bridge_state as they were, whatever the
\* bridge state and whether or not the update supports bridging.
C2_NoChangeIsNoOp ==
    (IsUrs /\ Merged = pre.relay_settings) =>
        /\ ret = FALSE
        /\ relay_settings = pre.relay_settings
        /\ bridge_state = pre.bridge_state

\* C2: a no-op update that does not support bridging, made with the bridge On.
C2_Witness ==
    /\ IsUrs
    /\ Merged = pre.relay_settings
    /\ pre.bridge_state = "On"
    /\ ~supports_bridge(arg)
    /\ bridge_state = "On"

\* C3: with the bridge On, a changing update that does not support bridging
\* returns true, makes bridge_state Auto and relay_settings the merge result.
C3_ChangeResetsBridge ==
    (IsUrs /\ pre.bridge_state = "On" /\ Merged # pre.relay_settings
           /\ ~supports_bridge(arg)) =>
        /\ ret = TRUE
        /\ bridge_state = "Auto"
        /\ relay_settings = Merged

C3_Witness ==
    /\ IsUrs
    /\ pre.bridge_state = "On"
    /\ Merged # pre.relay_settings
    /\ ~supports_bridge(arg)
    /\ bridge_state = "Auto"

\* C4: with the bridge On, a changing update that supports bridging returns
\* true, makes relay_settings the merge result and leaves bridge_state On.
C4_ChangeKeepsBridge ==
    (IsUrs /\ pre.bridge_state = "On" /\ Merged # pre.relay_settings
           /\ supports_bridge(arg)) =>
        /\ ret = TRUE
        /\ relay_settings = Merged
        /\ bridge_state = "On"

C4_Witness ==
    /\ IsUrs
    /\ pre.bridge_state = "On"
    /\ Merged # pre.relay_settings
    /\ supports_bridge(arg)
    /\ relay_settings = Merged
    /\ bridge_state = "On"

\* C6: a mutator returns a boolean (it cannot fail), true exactly when the
\* aggregate after the call differs from the aggregate before it; for
\* update_relay_settings that is exactly when the merge differs from the
\* prior relay_settings, and relay_settings is the merge after any call.
C6_ReturnReportsChange ==
    (IsUrs \/ IsSbs) =>
        /\ ret \in BOOLEAN
        /\ ret = (Self # pre)
        /\ IsUrs => /\ ret = (Merged # pre.relay_settings)
                    /\ relay_settings = Merged

\* C6: an update that changed both relay_settings and bridge_state.
C6_Witness ==
    /\ IsUrs
    /\ ret = TRUE
    /\ relay_settings # pre.relay_settings
    /\ bridge_state # pre.bridge_state

\* C7: set_bridge_state(new) leaves bridge_state = new and nothing else
\* touched, returning true exactly when new differed from the prior state; a
\* second consecutive call with the same argument returns false and leaves
\* the aggregate as the first call left it.
C7_SetBridgeStateIdempotent ==
    IsSbs =>
        /\ bridge_state = arg
        /\ ret = (arg # pre.bridge_state)
        /\ Self = [pre EXCEPT !.bridge_state = arg]
        /\ (prev.op = "set_bridge_state" /\ prev.arg = arg) =>
               (ret = FALSE /\ Self = pre)

\* C7: the second of two consecutive set_bridge_state(On) calls.
C7_Witness ==
    /\ IsSbs /\ arg = "On"
    /\ prev.op = "set_bridge_state" /\ prev.arg = "On"
    /\ ret = FALSE
    /\ bridge_state = "On"

(***************************************************************************)
(* update_relay_settings statement by statement (mod.rs:135-153).  A pc    *)
(* value names the line about to be executed.  `&mut self` gives the call   *)
(* exclusive access, so the other methods run only between calls; observe  *)
(* stands for a reader that could look at the two private fields at any    *)
(* point, which is stronger than anything the borrow rules let exist.      *)
(***************************************************************************)
\* The order of the statements on the changing branch: the comparison (138),
\* the bridge-state reset (139-141), the commit (148), the return (149).
UrsCommitBeforeReset(line) ==
    CASE line = "l138" -> "l148"
      [] line = "l148" -> "l139"
      [] line = "l139" -> "l149"

UrsSucc(line) ==
    CASE line = "l138" -> "l139"
      [] line = "l139" -> "l148"
      [] line = "l148" -> "l149"

urs_call(update) ==
    /\ pc = "idle"
    /\ Called("update_relay_settings", update)
    /\ ret' = None
    /\ pc' = "l136"
    /\ observed' = NoObservation
    /\ UNCHANGED <<fields, history, update_supports_bridge, new_settings, codec>>

urs_l136 ==
    /\ pc = "l136"
    /\ update_supports_bridge' = supports_bridge(arg)
    /\ pc' = "l137"
    /\ UNCHANGED <<fields, call, history, new_settings, observed, codec>>

urs_l137 ==
    /\ pc = "l137"
    /\ new_settings' = merge(relay_settings, arg)
    /\ pc' = "l138"
    /\ UNCHANGED <<fields, call, history, update_supports_bridge, observed, codec>>

urs_l138 ==
    /\ pc = "l138"
    /\ pc' = IF UrsChanged(relay_settings, new_settings)
             THEN UrsSucc("l138")
             ELSE "l151"
    /\ UNCHANGED <<fields, call, history, update_supports_bridge, new_settings,
                   observed, codec>>

urs_l139 ==
    /\ pc = "l139"
    /\ bridge_state' = UrsBridgeState(bridge_state, update_supports_bridge)
    /\ pc' = UrsSucc("l139")
    /\ UNCHANGED <<relay_settings, bridge_settings, obfuscation_settings,
                   allow_lan, block_when_disconnected, auto_connect,
                   tunnel_options, show_beta_releases, settings_version>>
    /\ UNCHANGED <<call, history, update_supports_bridge, new_settings,
                   observed, codec>>

urs_l148 ==
    /\ pc = "l148"
    /\ relay_settings' = UrsCommitted(relay_settings, new_settings)
    /\ NoteChange(TRUE, update_supports_bridge)
    /\ pc' = UrsSucc("l148")
    /\ UNCHANGED <<bridge_state, bridge_settings, obfuscation_settings,
                   allow_lan, block_when_disconnected, auto_connect,
                   tunnel_options, show_beta_releases, settings_version>>
    /\ UNCHANGED <<call, update_supports_bridge, new_settings, observed, codec>>

\* line 149: the changing branch returns; the locals go out of scope.
urs_l149 ==
    /\ pc = "l149"
    /\ ret' = UrsReturn(TRUE)
    /\ pc' = "idle"
    /\ update_supports_bridge' = None
    /\ new_settings' = None
    /\ UNCHANGED <<fields, op, arg, pre, prev, history, observed, codec>>

\* line 151: the unchanged branch returns.
urs_l151 ==
    /\ pc = "l151"
    /\ ret' = UrsReturn(FALSE)
    /\ pc' = "idle"
    /\ update_supports_bridge' = None
    /\ new_settings' = None
    /\ UNCHANGED <<fields, op, arg, pre, prev, history, observed, codec>>

observe ==
    /\ observed' = [relay_settings |-> relay_settings,
                    bridge_state |-> bridge_state,
                    pc |-> pc]
    /\ UNCHANGED <<fields, call, history, pc, update_supports_bridge,
                   new_settings, codec>>

NextSteps ==
    \/ \E update \in RelaySettingsUpdate : urs_call(update)
    \/ urs_l136
    \/ urs_l137
    \/ urs_l138
    \/ urs_l139
    \/ urs_l148
    \/ urs_l149
    \/ urs_l151
    \/ observe
    \/ \E new \in BridgeState : set_bridge_state(new)

SpecSteps == Init /\ [][NextSteps]_vars

\* The pair (rs, bs) shows the relay settings of the current changing,
\* non-bridge-supporting update together with the On it found.
StaleBridge(rs, bs) ==
    /\ pre.bridge_state = "On"
    /\ ~supports_bridge(arg)
    /\ Merged # pre.relay_settings
    /\ rs = Merged
    /\ bs = "On"

\* C5: at no statement of update_relay_settings, at its return, and in no
\* observation made meanwhile, does relay_settings hold the merged value of a
\* changing update that does not support bridging while bridge_state is still
\* the On the call found; and when the call returns, either nothing changed
\* (false) or the whole update is applied (true).
C5_ResetNotAfterCommit ==
    IsUrs =>
        /\ ~StaleBridge(relay_settings, bridge_state)
        /\ observed.pc # None =>
               ~StaleBridge(observed.relay_settings, observed.bridge_state)
        /\ pc = "idle" =>
               \/ ret = FALSE /\ Self = pre
               \/ /\ ret = TRUE
                  /\ Merged # pre.relay_settings
                  /\ Self = [pre EXCEPT
                        !.relay_settings = Merged,
                        !.bridge_state =
                            IF pre.bridge_state = "On" /\ ~supports_bridge(arg)
                            THEN "Auto" ELSE pre.bridge_state]

\* C5: an observer looks between the reset and the commit of a changing
\* update that does not support bridging, made with the bridge On.
C5_Witness ==
    /\ IsUrs /\ pc = "l148"
    /\ pre.bridge_state = "On"
    /\ ~supports_bridge(arg)
    /\ observed.pc = "l148"
    /\ observed.bridge_state = "Auto"
    /\ observed.relay_settings = pre.relay_settings

(***************************************************************************)
(* The SettingsVersion codec (mod.rs:34-60) and Settings::default().       *)
(* The document's settings_version is a bare u32: `wire` holds it and      *)
(* remembers whether Serialize wrote it (from = the version) or it came    *)
(* with a document read from elsewhere (from = "document").                *)
(***************************************************************************)
Ok(v) == [ok |-> TRUE, version |-> v, error |-> None]
\* format!("{} is not a valid SettingsVersion", v)
Err(v) == [ok |-> FALSE, version |-> None,
           error |-> <<v, " is not a valid SettingsVersion">>]

\* Plausible slips of the match of lines 39-49.
DeserializeVersionLenient(raw) ==
    CASE raw = AsU32("V2") -> Ok("V2")
      [] raw = AsU32("V3") -> Ok("V3")
      [] raw = AsU32("V4") -> Ok("V4")
      [] raw = AsU32("V5") -> Ok("V5")
      [] raw = AsU32("V6") -> Ok("V6")
      [] OTHER -> Ok(CURRENT_SETTINGS_VERSION)

DeserializeVersionCopiedArm(raw) ==
    CASE raw = AsU32("V2") -> Ok("V2")
      [] raw = AsU32("V3") -> Ok("V3")
      [] raw = AsU32("V4") -> Ok("V4")
      [] raw = AsU32("V5") -> Ok("V6")
      [] raw = AsU32("V6") -> Ok("V6")
      [] OTHER -> Err(raw)

\* impl Deserialize for SettingsVersion, on the u32 read (mod.rs:39-49).
DeserializeVersion(raw) ==
    CASE raw = AsU32("V2") -> Ok("V2")
      [] raw = AsU32("V3") -> Ok("V3")
      [] raw = AsU32("V4") -> Ok("V4")
      [] raw = AsU32("V5") -> Ok("V5")
      [] raw = AsU32("V6") -> Ok("V6")
      [] OTHER -> Err(raw)

\* impl Serialize for SettingsVersion (mod.rs:58).
SerializeVersion(v) == AsU32(v)

serialize_version(v) ==
    /\ ser' = [input |-> v, out |-> SerializeVersion(v)]
    /\ wire' = [raw |-> SerializeVersion(v), from |-> v]
    /\ UNCHANGED <<fields, call, history, locals, de>>

\* A document from elsewhere carries the u32 raw as its settings_version.
read_document(raw) ==
    /\ wire' = [raw |-> raw, from |-> "document"]
    /\ UNCHANGED <<fields, call, history, locals, de, ser>>

deserialize_version ==
    /\ wire.from # None
    /\ de' = [input |-> wire, out |-> DeserializeVersion(wire.raw)]
    /\ UNCHANGED <<fields, call, history, locals, wire, ser>>

\* Settings::default() (mod.rs:105-128): a fresh aggregate replaces the old.
default_new ==
    /\ pc = "idle"
    /\ Called("default", None)
    /\ ret' = None
    /\ Install(DefaultSettings)
    /\ last_change' = "none"
    /\ on_after_change' = FALSE
    /\ UNCHANGED <<locals, codec>>

NextCodec ==
    \/ \E v \in SettingsVersion : serialize_version(v)
    \/ \E raw \in RawValues : read_document(raw)
    \/ deserialize_version
    \/ default_new
    \/ get_settings_version

SpecCodec == Init /\ [][NextCodec]_vars

\* C8: Deserialize succeeds exactly on 2, 3, 4, 5 and 6, then with the tag of
\* that number; on every other u32 it fails with the "not a valid
\* SettingsVersion" error naming the integer read, and yields no tag.
C8_DecodeStrict ==
    de.input.from # None =>
        /\ de.out.ok = (de.input.raw \in {2, 3, 4, 5, 6})
        /\ de.out.ok => AsU32(de.out.version) = de.input.raw
        /\ ~de.out.ok =>
               /\ de.out.version = None
               /\ de.out.error = <<de.input.raw, " is not a valid SettingsVersion">>

\* C8: a document with settings_version 99 was decoded.
C8_Witness ==
    /\ de.input.from # None
    /\ de.input.raw = 99
    /\ ~de.out.ok
    /\ de.out.error[1] = 99

\* C9: what Serialize writes for a tag is its number, and Deserialize of what
\* Serialize wrote gives the tag back.
C9_RoundTrip ==
    /\ ser.input # None =>
           ser.out = CASE ser.input = "V2" -> 2 [] ser.input = "V3" -> 3
                       [] ser.input = "V4" -> 4 [] ser.input = "V5" -> 5
                       [] ser.input = "V6" -> 6
    /\ (de.input.from # None /\ de.input.from \in SettingsVersion) =>
           /\ de.out.ok
           /\ de.out.version = de.input.from

\* C9: V5 went through Serialize and Deserialize.
C9_Witness ==
    /\ de.input.from # None
    /\ de.input.from = "V5"
    /\ de.input.raw = 5
    /\ de.out.ok /\ de.out.version = "V5"

\* C10: a freshly constructed default aggregate carries
\* CURRENT_SETTINGS_VERSION, which is 6 and the highest tag defined.
C10_DefaultIsCurrent ==
    op = "default" =>
        /\ settings_version = CURRENT_SETTINGS_VERSION
        /\ AsU32(settings_version) = 6
        /\ \A v \in SettingsVersion : AsU32(v) <= AsU32(settings_version)

\* C10: Settings::default() was called, and the getter then read V6.
C10_Witness ==
    /\ prev.op = "default"
    /\ op = "get_settings_version"
    /\ ret = "V6"

(***************************************************************************)
(* Deserialize of the whole aggregate (mod.rs:63-94): the derived          *)
(* implementation under the container attribute #[serde(default)].  A      *)
(* document names some of the fields; the derive builds Settings::default() *)
(* first and takes from it every field the document does not name,         *)
(* settings_version included.  A named settings_version goes through the   *)
(* Deserialize of SettingsVersion.                                         *)
(***************************************************************************)
FieldNames ==
    {"relay_settings", "bridge_settings", "obfuscation_settings", "bridge_state",
     "allow_lan", "block_when_disconnected", "auto_connect", "tunnel_options",
     "show_beta_releases", "settings_version"}
PlainFields == FieldNames \ {"settings_version"}

\* The value a document gives a field it names (one that differs from the
\* default); its settings_version is the u32 doc.version.
DocValues ==
    [relay_settings          |-> Custom("Udp"),
     bridge_settings         |-> "BridgeSettings::Custom(proxy)",
     obfuscation_settings    |-> "SelectedObfuscation::Udp2Tcp",
     bridge_state            |-> "On",
     allow_lan               |-> TRUE,
     block_when_disconnected |-> TRUE,
     auto_connect            |-> TRUE,
     tunnel_options          |-> "TunnelOptions { mtu: Some(1280), .. }",
     show_beta_releases      |-> TRUE]

\* A document: the fields it names, and the u32 under settings_version (0 when
\* the document has no settings_version).
Documents ==
    {[has |-> h \cup {"settings_version"}, version |-> r] :
        h \in SUBSET PlainFields, r \in RawValues}
    \cup {[has |-> h, version |-> 0] : h \in SUBSET PlainFields}

\* Field-level defaults (each field's own type default) instead of the
\* container's: RelaySettings::default() has no location constraint.
AbsentValueOfType(f) ==
    IF f = "relay_settings" THEN DefaultConstraints ELSE DefaultSettings[f]

\* line 64, #[serde(default)] on the struct: a field the document does not
\* name takes its value from Settings::default().
AbsentValue(f) == DefaultSettings[f]

PlainField(doc, f) == IF f \in doc.has THEN DocValues[f] ELSE AbsentValue(f)

VersionField(doc) ==
    IF "settings_version" \in doc.has
    THEN DeserializeVersion(doc.version)
    ELSE Ok(AbsentValue("settings_version"))

DeserializeSettings(doc) ==
    LET v == VersionField(doc)
    IN  IF v.ok
        THEN [ok |-> TRUE, error |-> None,
              value |->
                [relay_settings          |-> PlainField(doc, "relay_settings"),
                 bridge_settings         |-> PlainField(doc, "bridge_settings"),
                 obfuscation_settings    |-> PlainField(doc, "obfuscation_settings"),
                 bridge_state            |-> PlainField(doc, "bridge_state"),
                 allow_lan               |-> PlainField(doc, "allow_lan"),
                 block_when_disconnected |-> PlainField(doc, "block_when_disconnected"),
                 auto_connect            |-> PlainField(doc, "auto_connect"),
                 tunnel_options          |-> PlainField(doc, "tunnel_options"),
                 show_beta_releases      |-> PlainField(doc, "show_beta_releases"),
                 settings_version        |-> v.version]]
        ELSE [ok |-> FALSE, error |-> v.error, value |-> None]

\* The persisted document is decoded when the settings are loaded, over the
\* freshly constructed aggregate; a successful decode replaces the aggregate
\* whole, a failed one yields no aggregate and leaves the one there is.
deserialize_settings(doc) ==
    LET r == DeserializeSettings(doc)
    IN  /\ pc = "idle"
        /\ op = "default"
        /\ Called("deserialize", doc)
        /\ ret' = [ok |-> r.ok, error |-> r.error]
        /\ IF r.ok
           THEN /\ Install(r.value)
                /\ last_change' = "none"
                /\ on_after_change' = FALSE
           ELSE UNCHANGED <<fields, history>>
        /\ UNCHANGED <<locals, codec>>

NextDecode ==
    \/ \E doc \in Documents : deserialize_settings(doc)
    \/ get_relay_settings
    \/ get_bridge_state
    \/ get_settings_version

SpecDecode == Init /\ [][NextDecode]_vars

IsDe == op = "deserialize"

\* C12: a document with a valid settings_version and any subset of the other
\* fields absent decodes successfully, each absent field taking its value in
\* the default aggregate and each named field the document's value; a
\* document with only settings_version = 6 decodes to the default aggregate.
C12_AbsentFieldsTakeDefault ==
    (IsDe /\ "settings_version" \in arg.has /\ arg.version \in {2, 3, 4, 5, 6}) =>
        /\ ret.ok
        /\ \A f \in PlainFields :
               Self[f] = IF f \in arg.has THEN DocValues[f] ELSE DefaultSettings[f]
        /\ AsU32(settings_version) = arg.version
        /\ (arg.has = {"settings_version"} /\ arg.version = 6) =>
               Self = DefaultSettings

\* C12: a V3 document naming only allow_lan and bridge_state was decoded.
C12_Witness ==
    /\ IsDe
    /\ arg.has = {"settings_version", "allow_lan", "bridge_state"}
    /\ arg.version = 3
    /\ ret.ok
    /\ allow_lan = TRUE /\ bridge_state = "On"
    /\ relay_settings = Normal("se", "Any")
    /\ auto_connect = FALSE

\* C13: every successful decode was of a document that names
\* settings_version, and the aggregate carries the tag of the u32 found
\* there; no default is substituted for an absent settings_version.
C13_VersionNeverDefaulted ==
    (IsDe /\ ret.ok) =>
        /\ "settings_version" \in arg.has
        /\ AsU32(settings_version) = arg.version

(***************************************************************************)
(* The life of an aggregate: constructed by Settings::default() or decoded *)
(* from a document, then read and changed through its methods.  The        *)
(* documents are those that name all of the plain fields or none of them.  *)
(***************************************************************************)
LifeDocuments ==
    {doc \in Documents : doc.has \cap PlainFields \in {{}, PlainFields}}

NextLife ==
    \/ default_new
    \/ \E doc \in LifeDocuments : deserialize_settings(doc)
    \/ \E update \in RelaySettingsUpdate : update_relay_settings(update)
    \/ \E new \in BridgeState : set_bridge_state(new)
    \/ get_relay_settings
    \/ get_bridge_state
    \/ get_settings_version

SpecLife == Init /\ [][NextLife]_vars

Getters == {"get_relay_settings", "get_bridge_state", "get_settings_version"}
Mutators == {"update_relay_settings", "set_bridge_state"}

\* C11: no getter and no mutator call changes settings_version, and
\* get_settings_version returns the field: through any sequence of such calls
\* it returns the tag the aggregate got at construction or decode.
C11_VersionReadOnly ==
    /\ [][op' \in Getters \cup Mutators => settings_version' = settings_version]_vars
    /\ [](op = "get_settings_version" => ret = settings_version)

\* C11: an aggregate decoded as V3 had its relay settings changed, and the
\* getter then read V3.
C11_Witness ==
    /\ op = "get_settings_version"
    /\ ret = "V3"
    /\ prev.op = "update_relay_settings"
    /\ last_change # "none"

\* C17: set_bridge_state leaves every field but bridge_state as it was,
\* update_relay_settings every field but relay_settings and bridge_state, and
\* the three getters every field.
C17_Frame ==
    /\ IsSbs => Self = [pre EXCEPT !.bridge_state = bridge_state]
    /\ IsUrs => Self = [pre EXCEPT !.relay_settings = relay_settings,
                                   !.bridge_state = bridge_state]
    /\ op \in Getters => Self = pre

\* C17: a changing update on a decoded V2 aggregate whose other fields all
\* differ from the default reset the bridge and left those fields alone.
C17_Witness ==
    /\ IsUrs /\ ret = TRUE
    /\ bridge_state # pre.bridge_state
    /\ settings_version = "V2"
    /\ allow_lan /\ auto_connect
    /\ bridge_settings = DocValues.bridge_settings
    /\ tunnel_options = DocValues.tunnel_options

(***************************************************************************)
(* Further properties of the atomic calls (checked under Spec).            *)
(***************************************************************************)
\* I1 for the state as it stands.
I1 == bridge_state = "On" => last_change \in {"none", "supports"}

\* C14: what set_bridge_state returns and stores is a function of the prior
\* bridge_state and the argument alone, whatever relay_settings is and whether
\* or not the last relay change supported bridging; set_bridge_state(On) on
\* Auto or Off returns true and leaves On.
C14_SetBridgeStateUnchecked ==
    IsSbs =>
        /\ ret = (arg # pre.bridge_state)
        /\ bridge_state = arg
        /\ (arg = "On" /\ pre.bridge_state \in {"Auto", "Off"}) =>
               (ret = TRUE /\ bridge_state = "On" /\ on_after_change)

\* C14: set_bridge_state(On) right after an update that does not support
\* bridging, over relay settings whose last change does not support it.
C14_Witness ==
    /\ IsSbs /\ arg = "On" /\ ret = TRUE
    /\ pre.bridge_state = "Auto"
    /\ prev.op = "update_relay_settings"
    /\ ~supports_bridge(prev.arg)
    /\ last_change = "not_supports"
    /\ bridge_state = "On"

\* C15: after an update_relay_settings call that returned true, bridge_state
\* = On implies that this update supports bridging (I1 holds); a call that
\* returned false leaves I1 as true or as false as it was; and I1 holds of the
\* default aggregate.
C15_UpdateRestoresI1 ==
    /\ []((IsUrs /\ ret = TRUE) =>
            /\ bridge_state = "On" => supports_bridge(arg)
            /\ I1)
    /\ [][(op' = "update_relay_settings" /\ ret' = FALSE) => (I1' <=> I1)]_vars
    /\ [](op = "default" => I1)

\* C15: set_bridge_state(On) was called over Wireguard relay settings; a
\* changing update that supports bridging came next, and I1 holds with the
\* bridge still On.
C15_Witness ==
    /\ IsUrs /\ ret = TRUE
    /\ prev.op = "set_bridge_state" /\ prev.arg = "On"
    /\ pre.bridge_state = "On"
    /\ pre.relay_settings.tunnel_protocol = "Wireguard"
    /\ supports_bridge(arg)
    /\ bridge_state = "On"
    /\ last_change = "supports"

\* C16: update_relay_settings leaves an Auto or Off bridge_state as it is and
\* changes an On one to Auto or not at all; no update_relay_settings call
\* makes bridge_state On when it was not.
C16_OnlyOnToAuto ==
    /\ [](IsUrs =>
            /\ pre.bridge_state \in {"Auto", "Off"} => bridge_state = pre.bridge_state
            /\ bridge_state # pre.bridge_state =>
                   (pre.bridge_state = "On" /\ bridge_state = "Auto"))
    /\ [][(op' = "update_relay_settings" /\ bridge_state # "On") =>
              bridge_state' # "On"]_vars

\* C16: the bridge was reset to Auto by one update, and a later changing,
\* bridge-supporting update left it Auto.
C16_Witness ==
    /\ IsUrs /\ ret = TRUE
    /\ supports_bridge(arg)
    /\ prev.op = "update_relay_settings"
    /\ ~supports_bridge(prev.arg)
    /\ pre.relay_settings.tunnel_protocol = "Wireguard"
    /\ pre.bridge_state = "Auto"
    /\ bridge_state = "Auto"

=============================================================================
